---- MODULE Spec2Model ----
(***************************************************************************)
(* Model of the Wine Society order harvester.                              *)
(*   src/src/wine_soc_order_scraper_selenium.py  browser-driven harvester  *)
(*   src/src/wine_soc_order_scraper.py           static HTTP variant       *)
(*                                                                         *)
(* Text that the code manipulates (labels, order-number text) is a         *)
(* sequence of one-character strings.  Python's None is NoText for text    *)
(* values, NoUrl for URLs and the empty sequence for Optional[OrderDetail].*)
(***************************************************************************)
EXTENDS Integers, Sequences, FiniteSets, TLC

\* ---------------------------------------------------------------- bounds
MaxControls == 3      \* controls on the listing page
MaxValueLen == 2      \* characters of an order-number value
MaxButtons == 2       \* buttons of one kind on a detail page

\* ------------------------------------------------------------------ text
NoText == <<"None">>

Whitespace == {" ", "\t"}

ValueChars == {" ", "\t", "7", "A"}

StartsWith(s, p) ==
    /\ Len(p) <= Len(s)
    /\ SubSeq(s, 1, Len(p)) = p

RECURSIVE LStrip(_)
LStrip(s) ==
    IF s # <<>> /\ Head(s) \in Whitespace THEN LStrip(Tail(s)) ELSE s

RECURSIVE RStrip(_)
RStrip(s) ==
    IF s # <<>> /\ s[Len(s)] \in Whitespace
    THEN RStrip(SubSeq(s, 1, Len(s) - 1))
    ELSE s

\* str.strip()
Strip(s) == RStrip(LStrip(s))

\* XPath normalize-space(): strip, and collapse inner whitespace runs
RECURSIVE Collapse(_)
Collapse(s) ==
    IF Len(s) < 2 THEN s
    ELSE IF s[1] \in Whitespace /\ s[2] \in Whitespace
         THEN Collapse(Tail(s))
         ELSE <<IF s[1] \in Whitespace THEN " " ELSE s[1]>> \o Collapse(Tail(s))

NormalizeSpace(s) == Collapse(Strip(s))

\* first position >= i at which sub occurs in s; 0 when there is none
RECURSIVE FindFrom(_, _, _)
FindFrom(s, sub, i) ==
    IF i + Len(sub) - 1 > Len(s) THEN 0
    ELSE IF SubSeq(s, i, i + Len(sub) - 1) = sub THEN i
    ELSE FindFrom(s, sub, i + 1)

\* "sub in s"
Contains(s, sub) == FindFrom(s, sub, 1) # 0

\* s.split(sep)
RECURSIVE Split(_, _)
Split(s, sep) ==
    LET i == FindFrom(s, sep, 1)
    IN  IF i = 0 THEN <<s>>
        ELSE <<SubSeq(s, 1, i - 1)>> \o Split(SubSeq(s, i + Len(sep), Len(s)), sep)

\* s.strip(chars)
RECURSIVE StripChars(_, _)
StripChars(s, chars) ==
    IF s # <<>> /\ Head(s) \in chars THEN StripChars(Tail(s), chars)
    ELSE IF s # <<>> /\ s[Len(s)] \in chars
         THEN StripChars(SubSeq(s, 1, Len(s) - 1), chars)
         ELSE s

\* first position >= j of s that holds no character of chars
RECURSIVE SkipWhile(_, _, _)
SkipWhile(s, j, chars) ==
    IF j <= Len(s) /\ s[j] \in chars THEN SkipWhile(s, j + 1, chars) ELSE j

\* first position >= j of s that holds a character of chars
RECURSIVE SkipUntil(_, _, _)
SkipUntil(s, j, chars) ==
    IF j <= Len(s) /\ s[j] \notin chars THEN SkipUntil(s, j + 1, chars) ELSE j

RECURSIVE SeqsUpTo(_, _)
SeqsUpTo(S, n) ==
    IF n = 0 THEN {<<>>}
    ELSE LET shorter == SeqsUpTo(S, n - 1)
         IN  shorter \cup {Append(q, x) : q \in shorter, x \in S}

\* ------------------------------------------------------------------ URLs
\* A URL is [origin, path], both text; a relative target has the empty
\* origin.  The URL as one string is origin followed by path.
SiteOrigin ==
    <<"h", "t", "t", "p", "s", ":", "/", "/", "w", "w", "w", ".", "t", "h",
      "e", "w", "i", "n", "e", "s", "o", "c", "i", "e", "t", "y", ".", "c",
      "o", "m">>

NoUrl == [origin |-> <<>>, path |-> <<>>]

ListingUrl ==
    [origin |-> SiteOrigin,
     path |->
      <<"/", "m", "y", "-", "a", "c", "c", "o", "u", "n", "t", "/", "o",
        "r", "d", "e", "r", "-", "h", "i", "s", "t", "o", "r", "y", "/">>]

BlankUrl ==
    [origin |-> <<"a", "b", "o", "u", "t", ":">>,
     path |-> <<"b", "l", "a", "n", "k">>]

OrderPath1 == <<"/", "o", "r", "d", "e", "r", "/", "1">>

OrderPath2 == <<"/", "o", "r", "d", "e", "r", "/", "2">>

Order1 == [origin |-> SiteOrigin, path |-> OrderPath1]

Order1Relative == [origin |-> <<>>, path |-> OrderPath1]

Order2 == [origin |-> SiteOrigin, path |-> OrderPath2]

\* the href property of a WebElement: the target resolved against the page
ResolveHref(base, u) ==
    IF u = NoUrl THEN NoUrl
    ELSE IF u.origin = <<>> THEN [origin |-> base.origin, path |-> u.path]
    ELSE u

\* ---------------------------------------------------------- listing page
View == <<"V", "i", "e", "w">>

ViewPadded == <<" ", "V", "i", "e", "w", " ">>

Edit == <<"E", "d", "i", "t">>

\* The controls a listing page is built from: two well-formed "View"
\* anchors and one control for each way of not being one.
Controls ==
    { [tag |-> "a",      text |-> View,       btn |-> TRUE,  href |-> Order1Relative],
      [tag |-> "a",      text |-> ViewPadded, btn |-> TRUE,  href |-> Order2],
      [tag |-> "a",      text |-> Edit,       btn |-> TRUE,  href |-> Order2],
      [tag |-> "a",      text |-> View,       btn |-> FALSE, href |-> Order2],
      [tag |-> "a",      text |-> View,       btn |-> TRUE,  href |-> NoUrl],
      [tag |-> "button", text |-> View,       btn |-> TRUE,  href |-> NoUrl] }

Listings == SeqsUpTo(Controls, MaxControls)

\* ----------------------------------------------------------- detail page
OrderNo12345 ==
    <<"O", "r", "d", "e", "r", " ", "N", "o", ":", " ", "1", "2", "3", "4", "5">>

DateText == <<" ", "1", "J", "u", "n">>

TotalText == <<"9", "9", " ">>

\* onclick attributes of the buttons of a detail page.  NoText: the button
\* has no onclick attribute; Stale: reading the attribute raises.
Stale == <<"Stale">>

InvoiceTarget ==
    <<"/", "C", "u", "s", "t", "o", "m", "F", "i", "l", "e", "D", "o", "w",
      "n", "l", "o", "a", "d", "/", "D", "o", "w", "n", "l", "o", "a", "d",
      "I", "n", "v", "o", "i", "c", "e", "?", "o", "r", "d", "e", "r", "N",
      "u", "m", "b", "e", "r", "=", "T", "W", "S", "W", "E", "B", "-", "1">>

NotesTarget ==
    <<"/", "D", "o", "w", "n", "l", "o", "a", "d", "W", "i", "n", "e", "N",
      "o", "t", "e", "s", "P", "d", "f", "?", "o", "r", "d", "e", "r", "N",
      "u", "m", "b", "e", "r", "=", "1">>

AbsoluteNotesTarget ==
    <<"h", "t", "t", "p", "s", ":", "/", "/", "c", "d", "n", ".", "e", "x",
      "a", "m", "p", "l", "e", "/", "D", "o", "w", "n", "l", "o", "a", "d",
      "W", "i", "n", "e", "N", "o", "t", "e", "s", "P", "d", "f", "/", "1">>

LocationHref == <<"l", "o", "c", "a", "t", "i", "o", "n", ".", "h", "r", "e", "f">>

LocationHrefEq == LocationHref \o <<"=">>

ReturnFalse == <<" ", "r", "e", "t", "u", "r", "n", " ", "f", "a", "l", "s", "e", ";">>

\* location.href='/CustomFileDownload/DownloadInvoice?orderNumber=TWSWEB-1'
InvoiceOnclick == LocationHrefEq \o <<"'">> \o InvoiceTarget \o <<"'">>

\* location.href = "/DownloadWineNotesPdf?orderNumber=1";
NotesOnclick ==
    LocationHref \o <<" ", "=", " ", "\"">> \o NotesTarget \o <<"\"", ";">>

\* location.href='/DownloadWineNotesPdf?orderNumber=1'; return false;
NotesOnclickReturn ==
    LocationHrefEq \o <<"'">> \o NotesTarget \o <<"'", ";">> \o ReturnFalse

\* location.href='https://cdn.example/DownloadWineNotesPdf/1'
NotesOnclickAbsolute ==
    LocationHrefEq \o <<"'">> \o AbsoluteNotesTarget \o <<"'">>

\* DownloadWineNotesPdf()
NotesOnclickCall ==
    <<"D", "o", "w", "n", "l", "o", "a", "d", "W", "i", "n", "e", "N", "o",
      "t", "e", "s", "P", "d", "f", "(", ")">>

Onclicks ==
    { InvoiceOnclick, NotesOnclick, NotesOnclickReturn, NotesOnclickAbsolute,
      NotesOnclickCall, NoText, Stale }

ButtonLists == SeqsUpTo(Onclicks, MaxButtons)

\* what the site does with a download navigation: hands over a file (the
\* tab keeps its page), renders a page in the tab, or the driver raises
Responses == {"download", "page", "raises"}

\* outcome of Page.printToPDF and the file write
Exports == {"ok", "fails"}

ProductLink ==
    <<"h", "t", "t", "p", "s", ":", "/", "/", "w", "w", "w", ".", "t", "h",
      "e", "w", "i", "n", "e", "s", "o", "c", "i", "e", "t", "y", ".", "c",
      "o", "m", "/", "p", "r", "o", "d", "u", "c", "t", "/", "r", "i", "o",
      "j", "a">>

HelpLink ==
    <<"h", "t", "t", "p", "s", ":", "/", "/", "w", "w", "w", ".", "t", "h",
      "e", "w", "i", "n", "e", "s", "o", "c", "i", "e", "t", "y", ".", "c",
      "o", "m", "/", "h", "e", "l", "p">>

\* href attributes of the hyperlinks of a detail page, in document order
ProductLinks == <<ProductLink, HelpLink, ProductLink>>

\* A detail page as the driver meets it:
\*   number   text of the first element whose text contains a label variant
\*            (NoText: no such element)
\*   date, total   text of the paragraph under the "Date placed" / "Order
\*            total" heading (NoText: heading or paragraph not located)
\*   export   outcome of the snapshot export
\*   receipts onclick of each "download receipt" button of the toolbar rows
\*   toolbar  whether the pull-right toolbar group exists; notes: onclick of
\*            each of its buttons
\*   receipt_response, notes_response   the site's answer to the downloads
\*   links    href of each hyperlink
Plain(n, d, t) ==
    [number |-> n, date |-> d, total |-> t, export |-> "ok",
     receipts |-> <<>>, receipt_response |-> "download",
     toolbar |-> FALSE, notes |-> <<>>, notes_response |-> "download",
     links |-> <<>>]

BlankPage == Plain(NoText, NoText, NoText)

\* pages served during a harvest: complete, lacking the total, lacking the
\* order number
HarvestPages ==
    { Plain(OrderNo12345, DateText, TotalText),
      Plain(OrderNo12345, DateText, NoText),
      Plain(NoText,       DateText, TotalText) }

VARIABLES
    pc,            \* position of the running program
    username,      \* WINE_SOCIETY_EMAIL as read by main
    password,      \* WINE_SOCIETY_PASSWORD as read by main
    listing,       \* controls of the listing page, in document order
    windows,       \* driver.window_handles: [handle, url, ref] per open tab
    active,        \* driver.current_window_handle (0: no session)
    page,          \* DOM of the active tab as the driver sees it
    hrefs,         \* scrape_all_orders: hrefs
    idx,           \* scrape_all_orders: position of the for loop in hrefs
    main_window,   \* scrape_all_orders: main_window
    order_data,    \* scrape_all_orders: order_data (<<>> is None)
    orders,        \* scrape_all_orders: orders
    processed,     \* history: one entry per handler call: [href, page, tab,
                   \* result] and what the call wrote and navigated to
    opens,         \* history: targets handed to window.open
    quits,         \* history: number of driver.quit() calls
    order_links,   \* static variant: order_links of scrape_all_orders
    fetched,       \* static variant, history: targets handed to session.get
    static_orders, \* static variant: orders of scrape_all_orders
    login_env,     \* login run on its own: what the site does during login
    row            \* to_dict run on its own: the mapping returned

vars == <<pc, username, password, listing, windows, active, page, hrefs, idx,
          main_window, order_data, orders, processed, opens, quits,
          order_links, fetched, static_orders, login_env, row>>

browser == <<windows, active, page>>

harvest == <<hrefs, idx, main_window, order_data, orders, processed, opens>>

creds == <<username, password>>

static == <<order_links, fetched, static_orders>>

\* state of the specifications that run one operation on its own
unit == <<login_env, row>>

\* login_env and row outside those specifications
Unobserved == <<>>

\* url of the tab with handle h (driver.current_url when h is active)
UrlOf(h) == (CHOOSE w \in {windows[i] : i \in DOMAIN windows} : w.handle = h).url

current_url == UrlOf(active)

\* --------------------------------------------------- listing discovery
\* //a[normalize-space(text())='View' and contains(@class, 'btn')]
IsViewButton(c) ==
    /\ c.tag = "a"
    /\ NormalizeSpace(c.text) = View
    /\ c.btn

\* mutant: the locator without the class test
get_order_view_buttons_NoClassTest ==
    SelectSeq(listing, LAMBDA c : c.tag = "a" /\ NormalizeSpace(c.text) = View)

get_order_view_buttons == SelectSeq(listing, IsViewButton)

Truthy(u) == u # NoUrl

\* mutant: a URL that is already in the list is not appended again
RECURSIVE CollectHrefsOnce(_)
CollectHrefsOnce(links) ==
    IF links = <<>> THEN <<>>
    ELSE LET href == ResolveHref(ListingUrl, links[Len(links)].href)
             before == CollectHrefsOnce(SubSeq(links, 1, Len(links) - 1))
         IN  IF Truthy(href) /\ \A k \in DOMAIN before : before[k] # href
             THEN Append(before, href)
             ELSE before

\* the loop "for link in view_links: href = ...; if href: hrefs.append(href)"
RECURSIVE CollectHrefs(_)
CollectHrefs(links) ==
    IF links = <<>> THEN <<>>
    ELSE LET href == ResolveHref(ListingUrl, Head(links).href)
         IN  (IF Truthy(href) THEN <<href>> ELSE <<>>) \o CollectHrefs(Tail(links))

\* login's wait: //a[normalize-space(text())='View'] | //button[...]
IsListingMarker(c) ==
    /\ c.tag \in {"a", "button"}
    /\ NormalizeSpace(c.text) = View

MarkerPresent == \E i \in DOMAIN listing : IsListingMarker(listing[i])

\* ----------------------------------------------------- field extraction
Prefixes ==
    << <<"O", "r", "d", "e", "r", " ", "N", "o", ":">>,
       <<"O", "r", "d", "e", "r", " ", "n", "u", "m", "b", "e", "r", ":">>,
       <<"O", "r", "d", "e", "r", " ", "#", ":">>,
       <<"O", "r", "d", "e", "r", " ", "n", "o", ":">>,
       <<"O", "r", "d", "e", "r", "N", "o", ":">>,
       <<"O", "r", "d", "e", "r", "N", "u", "m", "b", "e", "r", ":">> >>

\* the for loop over the prefixes, from the i-th prefix on
RECURSIVE StripPrefixFrom(_, _)
StripPrefixFrom(text, i) ==
    IF i > Len(Prefixes) THEN text
    ELSE IF StartsWith(text, Prefixes[i])
         THEN Strip(SubSeq(text, Len(Prefixes[i]) + 1, Len(text)))
         ELSE StripPrefixFrom(text, i + 1)

\* mutant: the prefix is cut off but the remainder is not stripped
RECURSIVE CutPrefixFrom(_, _)
CutPrefixFrom(text, i) ==
    IF i > Len(Prefixes) THEN text
    ELSE IF StartsWith(text, Prefixes[i])
         THEN SubSeq(text, Len(Prefixes[i]) + 1, Len(text))
         ELSE CutPrefixFrom(text, i + 1)

extract_order_number_NoStrip(text) == CutPrefixFrom(text, 1)

\* mutant: prefixes are stripped for as long as one matches
RECURSIVE extract_order_number_Repeatedly(_)
extract_order_number_Repeatedly(text) ==
    LET once == StripPrefixFrom(text, 1)
    IN  IF once = text THEN text ELSE extract_order_number_Repeatedly(once)

extract_order_number_from_element(text) == StripPrefixFrom(text, 1)

extract_order_date_from_h3(p) == IF p = NoText THEN NoText ELSE Strip(p)

extract_order_total_from_div(p) == IF p = NoText THEN NoText ELSE Strip(p)

\* ------------------------------------------------------------ artifacts
OutputDir == <<"o", "r", "d", "e", "r", "_", "d", "e", "t", "a", "i", "l", "s">>

UnknownOrder == <<"u", "n", "k", "n", "o", "w", "n", "_", "o", "r", "d", "e", "r">>

PdfSuffix == <<".", "p", "d", "f">>

\* os.path.join(a, b) on a POSIX system: an absolute b replaces a
PathJoin(a, b) ==
    IF StartsWith(b, <<"/">>) THEN b
    ELSE IF a = <<>> \/ a[Len(a)] = "/" THEN a \o b
    ELSE a \o <<"/">> \o b

\* mutant: the file is named by the order number even when it is empty
PdfPathOfNoPlaceholder(order_number) ==
    PathJoin(OutputDir, order_number \o PdfSuffix)

\* os.path.join(output_dir, f"{order_number or 'unknown_order'}.pdf")
PdfPathOf(order_number) ==
    PathJoin(OutputDir,
             (IF order_number \in {NoText, <<>>} THEN UnknownOrder ELSE order_number)
                \o PdfSuffix)

\* save_order_page_as_pdf: the paths written; a failure is logged only
save_order_page_as_pdf(pg, output_path) ==
    IF pg.export = "ok" THEN <<output_path>> ELSE <<>>

\* the URL as one string, as driver.current_url returns it
UrlText(u) == u.origin \o u.path

\* current_url.split("/")[0] + "//" + current_url.split("/")[2]
base_url(cur) ==
    LET parts == Split(cur, <<"/">>)
    IN  parts[1] \o <<"/", "/">> \o parts[3]

\* a string driver.get accepts: scheme://host and whatever follows
ValidUrl(t) ==
    LET parts == Split(t, <<"/">>)
    IN  /\ Len(parts) >= 3
        /\ parts[1] # <<>>
        /\ parts[1][Len(parts[1])] = ":"
        /\ parts[2] = <<>>
        /\ parts[3] # <<>>

\* the URL a tab shows after it has navigated to the string t
ParseUrl(t) ==
    [origin |-> base_url(t), path |-> SubSeq(t, Len(base_url(t)) + 1, Len(t))]

\* driver.get(target) in a tab: only a rendered page moves the tab
AfterGet(tab, target, response) ==
    IF response = "page" /\ ValidUrl(target)
    THEN [url |-> ParseUrl(target), detail |-> FALSE]
    ELSE tab

QuoteChars == {"'", "\""}

\* lines 335-349: the test on onclick and the URL built from it
IsReceiptInstruction(onclick) ==
    /\ onclick \notin {NoText, <<>>}
    /\ Contains(onclick, LocationHrefEq)

receipt_full_url(onclick, cur) ==
    LET url_part == StripChars(Strip(Split(onclick, LocationHrefEq)[2]),
                               QuoteChars \cup {";"})
    IN  IF StartsWith(url_part, <<"/">>) THEN base_url(cur) \o url_part
        ELSE url_part

\* the for loop over receipt_buttons: links appended so far, and whether
\* reading a button raised (the loop then ends in the handler at line 366)
RECURSIVE CollectReceiptLinks(_, _)
CollectReceiptLinks(btns, cur) ==
    IF btns = <<>> THEN [links |-> <<>>, raised |-> FALSE]
    ELSE IF Head(btns) = Stale THEN [links |-> <<>>, raised |-> TRUE]
    ELSE LET rest == CollectReceiptLinks(Tail(btns), cur)
             here == IF IsReceiptInstruction(Head(btns))
                     THEN <<receipt_full_url(Head(btns), cur)>>
                     ELSE <<>>
         IN  [links |-> here \o rest.links, raised |-> rest.raised]

\* download_receipt_pdf for each link in turn: the tab afterwards
RECURSIVE download_receipt_pdf(_, _, _)
download_receipt_pdf(links, tab, response) ==
    IF links = <<>> THEN tab
    ELSE download_receipt_pdf(Tail(links), AfterGet(tab, Head(links), response),
                              response)

NotesKeyword ==
    <<"D", "o", "w", "n", "l", "o", "a", "d", "W", "i", "n", "e", "N", "o",
      "t", "e", "s", "P", "d", "f">>

\* re.search(r"location\.href\s*=\s*['\"]([^'\"]+)['\"]", onclick), tried
\* from position i on: the captured group, or NoText when nothing matches
RECURSIVE SearchLocationHref(_, _)
SearchLocationHref(s, i) ==
    LET at == FindFrom(s, LocationHref, i)
        eq == SkipWhile(s, at + Len(LocationHref), Whitespace)
        quote == SkipWhile(s, eq + 1, Whitespace)
        close == SkipUntil(s, quote + 1, QuoteChars)
    IN  IF at = 0 THEN NoText
        ELSE IF /\ eq <= Len(s) /\ s[eq] = "="
                /\ quote <= Len(s) /\ s[quote] \in QuoteChars
                /\ close > quote + 1 /\ close <= Len(s)
             THEN SubSeq(s, quote + 1, close - 1)
             ELSE SearchLocationHref(s, at + 1)

IsNotesInstruction(onclick) ==
    /\ onclick \notin {NoText, <<>>}
    /\ Contains(onclick, NotesKeyword)
    /\ SearchLocationHref(onclick, 1) # NoText

notes_full_url(onclick, cur) ==
    LET url_part == SearchLocationHref(onclick, 1)
    IN  IF StartsWith(url_part, <<"/">>) THEN base_url(cur) \o url_part
        ELSE url_part

\* mutant: the loop goes on to the last button that qualifies
RECURSIVE LastNotesUrl(_, _)
LastNotesUrl(btns, cur) ==
    IF btns = <<>> \/ Head(btns) = Stale THEN NoText
    ELSE IF LastNotesUrl(Tail(btns), cur) # NoText THEN LastNotesUrl(Tail(btns), cur)
    ELSE IF IsNotesInstruction(Head(btns)) THEN notes_full_url(Head(btns), cur)
    ELSE NoText

\* the for loop over the toolbar buttons: the URL of the first button that
\* qualifies; NoText when none does or when reading a button raises
RECURSIVE FirstNotesUrl(_, _)
FirstNotesUrl(btns, cur) ==
    IF btns = <<>> \/ Head(btns) = Stale THEN NoText
    ELSE IF IsNotesInstruction(Head(btns)) THEN notes_full_url(Head(btns), cur)
    ELSE FirstNotesUrl(Tail(btns), cur)

\* download_wine_notes_from_toolbar in tab: the URL returned (NoText: None),
\* the navigations started, the tab afterwards
download_wine_notes_from_toolbar(pg, tab) ==
    LET full_url == IF tab.detail /\ pg.toolbar
                    THEN FirstNotesUrl(pg.notes, UrlText(tab.url))
                    ELSE NoText
        loaded == pg.notes_response # "raises" /\ ValidUrl(full_url)
    IN  IF full_url = NoText
        THEN [url |-> NoText, gets |-> <<>>, tab |-> tab]
        ELSE [url  |-> IF loaded THEN full_url ELSE NoText,
              gets |-> <<full_url>>,
              tab  |-> AfterGet(tab, full_url, pg.notes_response)]

\* ------------------------------------------------------------ OrderDetail
\* the fields of the dataclass, in declaration order
Fields ==
    <<"order_number", "order_date", "order_total", "url", "pdf_path",
      "receipts", "wine_notes", "wine_links", "download_dir">>

ListFields == {"receipts", "wine_notes", "wine_links"}

\* the default of the download_dir field
DownloadDir == <<"D", "a", "t", "a">>

\* dataclasses.asdict on a list: a new list built element by element
RECURSIVE CopyEach(_)
CopyEach(xs) ==
    IF xs = <<>> THEN <<>> ELSE <<Head(xs)>> \o CopyEach(Tail(xs))

RECURSIVE ReverseEach(_)
ReverseEach(xs) ==
    IF xs = <<>> THEN <<>> ELSE ReverseEach(Tail(xs)) \o <<Head(xs)>>

\* mutant: the lists come out in reverse order
to_dict_ListsReversed(rec) ==
    [k \in DOMAIN Fields |->
        <<Fields[k],
          IF Fields[k] \in ListFields THEN ReverseEach(rec[Fields[k]])
                                      ELSE rec[Fields[k]]>>]

\* OrderDetail.to_dict: asdict(self), a dict as its (key, value) items in
\* insertion order
to_dict(rec) ==
    [k \in DOMAIN Fields |->
        <<Fields[k],
          IF Fields[k] \in ListFields THEN CopyEach(rec[Fields[k]])
                                      ELSE rec[Fields[k]]>>]

\* d[key]
Get(d, key) == d[CHOOSE k \in DOMAIN d : d[k][1] = key][2]

\* OrderDetail(**d)
OrderDetail(d) ==
    [order_number |-> Get(d, "order_number"),
     order_date   |-> Get(d, "order_date"),
     order_total  |-> Get(d, "order_total"),
     url          |-> Get(d, "url"),
     pdf_path     |-> Get(d, "pdf_path"),
     receipts     |-> Get(d, "receipts"),
     wine_notes   |-> Get(d, "wine_notes"),
     wine_links   |-> Get(d, "wine_links"),
     download_dir |-> Get(d, "download_dir")]

\* ------------------------------------------------ handle_order_detail_page
\* One run of handle_order_detail_page on DOM pg shown at url:
\*   result        <<record>>, or <<>> (None) when the wait for the
\*                 order-number element times out
\*   written       files written by the snapshot export
\*   receipt_gets  URLs handed to driver.get by download_receipt_pdf
\*   notes_gets    URLs handed to driver.get by the tasting-notes download
\*   url           URL of the tab when the handler returns
RunHandler(pg, url) ==
    IF pg.number = NoText
    THEN [result |-> <<>>, written |-> <<>>, receipt_gets |-> <<>>,
          notes_gets |-> <<>>, url |-> url]
    ELSE LET order_number == extract_order_number_from_element(pg.number)
             pdf_path == PdfPathOf(order_number)
             found == CollectReceiptLinks(pg.receipts, UrlText(url))
             receipt_links == found.links
             downloads == IF found.raised THEN <<>> ELSE receipt_links
             tab == download_receipt_pdf(downloads, [url |-> url, detail |-> TRUE],
                                         pg.receipt_response)
             notes == download_wine_notes_from_toolbar(pg, tab)
             wine_notes_links == IF notes.url # NoText THEN <<notes.url>> ELSE <<>>
         IN  [result |-> << [order_number |-> order_number,
                             order_date   |-> extract_order_date_from_h3(pg.date),
                             order_total  |-> extract_order_total_from_div(pg.total),
                             url          |-> notes.tab.url,
                             pdf_path     |-> pdf_path,
                             receipts     |-> receipt_links,
                             wine_notes   |-> wine_notes_links,
                             wine_links   |-> wine_notes_links,
                             download_dir |-> DownloadDir] >>,
              written |-> save_order_page_as_pdf(pg, pdf_path),
              receipt_gets |-> downloads,
              notes_gets |-> notes.gets,
              url |-> notes.tab.url]

\* mutant: a missing order total aborts the handler like a missing number
handle_order_detail_page_TotalAborts(pg, url) ==
    IF pg.total = NoText THEN <<>> ELSE RunHandler(pg, url).result

\* mutant: a page without receipt buttons is treated as an error
handle_order_detail_page_NoReceiptAborts(pg, url) ==
    IF pg.receipts = <<>> THEN <<>> ELSE RunHandler(pg, url).result

\* mutant: the downloads are issued before the page is read, so that a
\* navigation that renders a page leaves no order-number element to find
handle_order_detail_page_DownloadsFirst(pg, url) ==
    LET run == RunHandler(pg, url)
    IN  IF run.url # url THEN <<>> ELSE run.result

\* the value handle_order_detail_page returns
handle_order_detail_page(pg, url) == RunHandler(pg, url).result

\* ------------------------------------------------------------------ main
Unset == "<unset>"

EnvValues == {Unset, "", "member@example.com"}

Init ==
    /\ pc = "main"
    /\ username = Unset
    /\ password = Unset
    /\ listing \in Listings
    /\ windows = <<>>
    /\ active = 0
    /\ page = BlankPage
    /\ hrefs = <<>>
    /\ idx = 0
    /\ main_window = 0
    /\ order_data = <<>>
    /\ orders = <<>>
    /\ processed = <<>>
    /\ opens = <<>>
    /\ quits = 0
    /\ order_links = <<>>
    /\ fetched = <<>>
    /\ static_orders = <<>>
    /\ login_env = Unobserved
    /\ row = Unobserved

\* mutant: only the account identifier is required
LoadCredentialsUsernameOnly ==
    /\ pc = "main"
    /\ \E u \in EnvValues, p \in EnvValues :
         /\ username' = u
         /\ password' = p
         /\ pc' = IF u \in {Unset, ""} THEN "config_error" ELSE "construct"
    /\ UNCHANGED <<unit, listing, browser, harvest, quits, static>>

\* main: read the two credentials; either missing or empty raises ValueError
LoadCredentials ==
    /\ pc = "main"
    /\ \E u \in EnvValues, p \in EnvValues :
         /\ username' = u
         /\ password' = p
         /\ pc' = IF u \in {Unset, ""} \/ p \in {Unset, ""}
                  THEN "config_error"
                  ELSE "construct"
    /\ UNCHANGED <<unit, listing, browser, harvest, quits, static>>

\* WineSocietyOrderScraperSelenium.__init__: start the browser session
Construct ==
    /\ pc = "construct"
    /\ windows' = << [handle |-> 1, url |-> BlankUrl, ref |-> 0] >>
    /\ active' = 1
    /\ pc' = "login"
    /\ UNCHANGED <<unit, creds, listing, page, harvest, quits, static>>

SetUrl(h, u) ==
    [i \in DOMAIN windows |->
        IF windows[i].handle = h THEN [windows[i] EXCEPT !.url = u] ELSE windows[i]]

\* mutant: login returns without waiting for the listing marker
LoginWithoutMarkerWait ==
    /\ pc = "login"
    /\ \E form \in BOOLEAN :
         /\ windows' = SetUrl(active, ListingUrl)
         /\ pc' = IF form THEN "logged_in" ELSE "login_failed"
    /\ UNCHANGED <<unit, creds, listing, active, page, harvest, quits, static>>

\* mutant: an overlay that cannot be clicked ends login
LoginStepCookieRequired(form, cookie, loaded) ==
    /\ pc = "login"
    /\ cookie \in {"absent", "clicked", "unclickable"}
    /\ windows' = SetUrl(active, ListingUrl)
    /\ pc' = IF form /\ cookie # "unclickable" /\ loaded /\ MarkerPresent
             THEN "logged_in"
             ELSE "login_failed"
    /\ UNCHANGED <<unit, creds, listing, active, page, harvest, quits, static>>

\* login: form wait (form: the form appears), credentials, navigation to
\* the order history, cookie button (cookie: what the wait and the click
\* meet; every failure is swallowed), wait for the listing marker (loaded:
\* the listing is rendered within the timeout)
LoginStep(form, cookie, loaded) ==
    /\ pc = "login"
    /\ cookie \in {"absent", "clicked", "unclickable"}
    /\ windows' = SetUrl(active, ListingUrl)
    /\ pc' = IF form /\ loaded /\ MarkerPresent THEN "logged_in" ELSE "login_failed"
    /\ UNCHANGED <<unit, creds, listing, active, page, harvest, quits, static>>

Login ==
    \E form \in BOOLEAN, cookie \in {"absent", "clicked", "unclickable"},
       loaded \in BOOLEAN : LoginStep(form, cookie, loaded)

\* --------------------------------------------------- scrape_all_orders
\* lines 404-413: find the view links, read their hrefs, remember the tab
Discover ==
    /\ pc = "logged_in"
    /\ \E ok \in BOOLEAN :
         IF ok
         THEN /\ hrefs' = CollectHrefs(get_order_view_buttons)
              /\ main_window' = active
              /\ idx' = 1
              /\ pc' = "loop"
         ELSE /\ pc' = "harvest_raised"
              /\ UNCHANGED <<hrefs, main_window, idx>>
    /\ orders' = <<>>
    /\ UNCHANGED <<unit, creds, listing, browser, order_data, processed, opens, quits, static>>

NewHandle == Len(windows) + 1

\* line 416: window.open(href, '_blank') through execute_script
OpenTab ==
    /\ pc = "loop"
    /\ idx <= Len(hrefs)
    /\ \E outcome \in {"opened", "no_window", "raised"} :
         /\ windows' = IF outcome = "opened"
                       THEN Append(windows, [handle |-> NewHandle,
                                             url |-> hrefs[idx], ref |-> idx])
                       ELSE windows
         /\ pc' = IF outcome = "raised" THEN "harvest_raised" ELSE "opened"
    /\ opens' = Append(opens, hrefs[idx])
    /\ UNCHANGED <<unit, creds, listing, active, page, hrefs, idx, main_window,
                   order_data, orders, processed, quits, static>>

\* line 417: switch_to.window(window_handles[-1]); the driver now sees the
\* DOM of that tab
SwitchToTab ==
    /\ pc = "opened"
    /\ \E ok \in BOOLEAN, pg \in HarvestPages :
         IF ok
         THEN /\ active' = windows[Len(windows)].handle
              /\ page' = pg
              /\ pc' = "in_tab"
         ELSE /\ pc' = "harvest_raised"
              /\ UNCHANGED <<active, page>>
    /\ UNCHANGED <<unit, creds, listing, windows, harvest, quits, static>>

\* line 418: order_data = self.handle_order_detail_page()
HandleOrderDetailPage ==
    /\ pc = "in_tab"
    /\ order_data' = handle_order_detail_page(page, current_url)
    /\ LET run == RunHandler(page, current_url)
       IN  /\ windows' = SetUrl(active, run.url)
           /\ processed' = Append(processed,
                                  [href |-> hrefs[idx], page |-> page,
                                   tab |-> active, result |-> order_data',
                                   written |-> run.written,
                                   receipt_gets |-> run.receipt_gets,
                                   notes_gets |-> run.notes_gets])
    /\ pc' = "handled"
    /\ UNCHANGED <<unit, creds, listing, active, page, hrefs, idx, main_window, orders,
                   opens, quits, static>>

\* mutant: focus stays on the order's tab
AppendAndStay ==
    /\ pc = "handled"
    /\ orders' = IF order_data # <<>> THEN Append(orders, order_data[1]) ELSE orders
    /\ idx' = idx + 1
    /\ pc' = "loop"
    /\ UNCHANGED <<unit, creds, listing, browser, hrefs, main_window, order_data,
                   processed, opens, quits, static>>

\* mutant: an order without a record ends the loop
AppendOrStop ==
    /\ pc = "handled"
    /\ orders' = IF order_data # <<>> THEN Append(orders, order_data[1]) ELSE orders
    /\ active' = main_window
    /\ idx' = IF order_data # <<>> THEN idx + 1 ELSE Len(hrefs) + 1
    /\ pc' = "loop"
    /\ UNCHANGED <<unit, creds, listing, windows, page, hrefs, main_window, order_data,
                   processed, opens, quits, static>>

\* mutant: the record is put in front of the earlier ones
PrependAndSwitchBack ==
    /\ pc = "handled"
    /\ orders' = IF order_data # <<>> THEN order_data \o orders ELSE orders
    /\ active' = main_window
    /\ idx' = idx + 1
    /\ pc' = "loop"
    /\ UNCHANGED <<unit, creds, listing, windows, page, hrefs, main_window, order_data,
                   processed, opens, quits, static>>

\* lines 419-421: append the record if there is one, switch back
AppendAndSwitchBack ==
    /\ pc = "handled"
    /\ orders' = IF order_data # <<>> THEN Append(orders, order_data[1]) ELSE orders
    /\ \E ok \in BOOLEAN :
         IF ok
         THEN /\ active' = main_window
              /\ idx' = idx + 1
              /\ pc' = "loop"
         ELSE /\ pc' = "harvest_raised"
              /\ UNCHANGED <<active, idx>>
    /\ UNCHANGED <<unit, creds, listing, windows, page, hrefs, main_window, order_data,
                   processed, opens, quits, static>>

\* line 422: return orders
Return ==
    /\ pc = "loop"
    /\ idx > Len(hrefs)
    /\ pc' = "harvest_done"
    /\ UNCHANGED <<unit, creds, listing, browser, harvest, quits, static>>

\* mutant: the session is shut down only after a completed harvest
CloseAfterHarvestOnly ==
    /\ pc = "harvest_done"
    /\ windows' = <<>>
    /\ active' = 0
    /\ quits' = quits + 1
    /\ pc' = "exited"
    /\ UNCHANGED <<unit, creds, listing, page, harvest, static>>

\* main's finally: scraper.close() -> driver.quit()
Close ==
    /\ pc \in {"login_failed", "harvest_raised", "harvest_done"}
    /\ windows' = <<>>
    /\ active' = 0
    /\ quits' = quits + 1
    /\ pc' = IF pc = "harvest_done" THEN "exited" ELSE "crashed"
    /\ UNCHANGED <<unit, creds, listing, page, harvest, static>>

Next ==
    \/ LoadCredentials
    \/ Construct
    \/ Login
    \/ Discover
    \/ OpenTab
    \/ SwitchToTab
    \/ HandleOrderDetailPage
    \/ AppendAndSwitchBack
    \/ Return
    \/ Close

Spec == Init /\ [][Next]_vars

\* ------------------------------------------- the handler on its own
Values == SeqsUpTo(ValueChars, MaxValueLen)

\* the label variants the locator looks for (the prefixes without the colon)
Labels == {SubSeq(Prefixes[i], 1, Len(Prefixes[i]) - 1) : i \in DOMAIN Prefixes}

PrefixSet == {Prefixes[i] : i \in DOMAIN Prefixes}

\* texts in which a prefix is followed by a prefix
DoubledTexts ==
    { Prefixes[1] \o Prefixes[1] \o <<"7">>,
      Prefixes[1] \o <<" ">> \o Prefixes[2] \o <<" ", "7">>,
      Prefixes[5] \o Prefixes[1] }

\* texts of a located order-number element: every one contains a label
NumberTexts ==
    {l \o v : l \in Labels \cup PrefixSet, v \in Values}
      \cup {OrderNo12345} \cup DoubledTexts

\* pages that vary in the three fields and carry no artifact
FieldPages ==
    { Plain(n, d, t) : n \in NumberTexts \cup {NoText},
                       d \in {NoText, DateText},
                       t \in {NoText, TotalText} }

\* numbered 12345, or carrying the label without a number
ArtifactNumbers == {OrderNo12345, Prefixes[1]}

\* pages that vary in the snapshot export, with and without the other
\* artifacts
SnapshotPages ==
    { [Plain(n, DateText, TotalText) EXCEPT
          !.export = e, !.receipts = r, !.toolbar = TRUE, !.notes = b,
          !.links = ProductLinks] :
      n \in ArtifactNumbers, e \in Exports, r \in {<<>>, <<InvoiceOnclick>>},
      b \in {<<>>, <<NotesOnclick>>} }

\* pages that vary in the receipt buttons, beside one notes button
ReceiptPages ==
    { [Plain(OrderNo12345, DateText, TotalText) EXCEPT
          !.receipts = r, !.receipt_response = rr,
          !.toolbar = TRUE, !.notes = <<NotesOnclick>>, !.links = ProductLinks] :
      r \in ButtonLists, rr \in Responses }

\* pages that vary in the toolbar buttons, beside one receipt button
NotesPages ==
    { [Plain(OrderNo12345, DateText, TotalText) EXCEPT
          !.receipts = <<InvoiceOnclick>>, !.toolbar = TRUE, !.notes = b,
          !.notes_response = nr] :
      b \in ButtonLists, nr \in Responses }

HandlerPages == FieldPages \cup SnapshotPages \cup ReceiptPages \cup NotesPages

\* the harvest has switched to the tab of its only reference
InitHandler ==
    /\ pc = "in_tab"
    /\ username = "member@example.com"
    /\ password = "member@example.com"
    /\ listing = << [tag |-> "a", text |-> View, btn |-> TRUE, href |-> Order1Relative] >>
    /\ windows = << [handle |-> 1, url |-> ListingUrl, ref |-> 0],
                    [handle |-> 2, url |-> Order1, ref |-> 1] >>
    /\ active = 2
    /\ page \in HandlerPages
    /\ hrefs = <<Order1>>
    /\ idx = 1
    /\ main_window = 1
    /\ order_data = <<>>
    /\ orders = <<>>
    /\ processed = <<>>
    /\ opens = <<Order1>>
    /\ quits = 0
    /\ order_links = <<>>
    /\ fetched = <<>>
    /\ static_orders = <<>>
    /\ login_env = Unobserved
    /\ row = Unobserved

NextHandler == HandleOrderDetailPage

SpecHandler == InitHandler /\ [][NextHandler]_vars

\* ------------------------------------------------------- login on its own
LoginEnvs ==
    [form : BOOLEAN, cookie : {"absent", "clicked", "unclickable"},
     loaded : BOOLEAN]

\* main has constructed the scraper; what the site will do is fixed
InitLogin ==
    /\ pc = "login"
    /\ username = "member@example.com"
    /\ password = "member@example.com"
    /\ listing \in Listings
    /\ windows = << [handle |-> 1, url |-> BlankUrl, ref |-> 0] >>
    /\ active = 1
    /\ page = BlankPage
    /\ hrefs = <<>>
    /\ idx = 0
    /\ main_window = 0
    /\ order_data = <<>>
    /\ orders = <<>>
    /\ processed = <<>>
    /\ opens = <<>>
    /\ quits = 0
    /\ order_links = <<>>
    /\ fetched = <<>>
    /\ static_orders = <<>>
    /\ login_env \in LoginEnvs
    /\ row = Unobserved

LoginObserved == LoginStep(login_env.form, login_env.cookie, login_env.loaded)

NextLogin == LoginObserved

SpecLogin == InitLogin /\ [][NextLogin]_vars

\* ----------------------------------------------------- to_dict on its own
RecordNumbers == {NoText, <<>>, <<"7">>}

RecordLists == SeqsUpTo({UrlText(Order1), UrlText(Order2)}, MaxButtons)

\* records as the handler and the test build them
Records ==
    [order_number : RecordNumbers,
     order_date   : {NoText, DateText},
     order_total  : {NoText, TotalText},
     url          : {Order1, Order2},
     pdf_path     : {NoText, PdfPathOf(<<"7">>)},
     receipts     : RecordLists,
     wine_notes   : {<<>>, <<UrlText(Order1)>>},
     wine_links   : {<<>>, <<UrlText(Order2)>>},
     download_dir : {DownloadDir}]

InitRecord ==
    /\ pc = "record"
    /\ username = "member@example.com"
    /\ password = "member@example.com"
    /\ listing = <<>>
    /\ windows = <<>>
    /\ active = 0
    /\ page = BlankPage
    /\ hrefs = <<>>
    /\ idx = 0
    /\ main_window = 0
    /\ order_data \in {<<r>> : r \in Records}
    /\ orders = <<>>
    /\ processed = <<>>
    /\ opens = <<>>
    /\ quits = 0
    /\ order_links = <<>>
    /\ fetched = <<>>
    /\ static_orders = <<>>
    /\ login_env = Unobserved
    /\ row = Unobserved

\* d = od.to_dict()
ToDict ==
    /\ pc = "record"
    /\ row' = to_dict(order_data[1])
    /\ pc' = "dict"
    /\ UNCHANGED <<login_env, creds, listing, browser, harvest, quits, static>>

NextRecord == ToDict

SpecRecord == InitRecord /\ [][NextRecord]_vars

\* ------------------------------------------------ static HTTP variant
ButtonPlaceholder ==
    [origin |-> <<>>,
     path |->
      <<"[", "B", "U", "T", "T", "O", "N", ":", " ", "S", "e", "l", "e",
        "n", "i", "u", "m", " ", "r", "e", "q", "u", "i", "r", "e", "d", "]">>]

StaticStartUrl ==
    [origin |-> SiteOrigin,
     path |-> <<"/", "m", "y", "-", "a", "c", "c", "o", "u", "n", "t", "/", "o", "r",
  "d", "e", "r", "s">>]

\* soup.find_all(tag, string="View"): the tag's string equals "View" exactly
IsStaticView(c, tag) ==
    /\ c.tag = tag
    /\ c.text = View

RECURSIVE AnchorLinks(_)
AnchorLinks(cs) ==
    IF cs = <<>> THEN <<>>
    ELSE (IF IsStaticView(Head(cs), "a") /\ Head(cs).href # NoUrl
          THEN <<Head(cs).href>> ELSE <<>>) \o AnchorLinks(Tail(cs))

RECURSIVE ButtonLinks(_)
ButtonLinks(cs) ==
    IF cs = <<>> THEN <<>>
    ELSE (IF IsStaticView(Head(cs), "button")
          THEN <<ButtonPlaceholder>> ELSE <<>>) \o ButtonLinks(Tail(cs))

\* the anchors' hrefs, then one placeholder per button
find_order_links(soup) == AnchorLinks(soup) \o ButtonLinks(soup)

\* link.startswith("/")
StartsWithSlash(u) == u.origin = <<>> /\ StartsWith(u.path, <<"/">>)

urljoin(base, u) == [origin |-> base.origin, path |-> u.path]

\* requests accepts only targets with a scheme
HasScheme(u) == u.origin # <<>>

InitStatic ==
    /\ pc = "static_main"
    /\ username = Unset
    /\ password = Unset
    /\ listing \in Listings
    /\ windows = <<>>
    /\ active = 0
    /\ page = BlankPage
    /\ hrefs = <<>>
    /\ idx = 0
    /\ main_window = 0
    /\ order_data = <<>>
    /\ orders = <<>>
    /\ processed = <<>>
    /\ opens = <<>>
    /\ quits = 0
    /\ order_links = <<>>
    /\ fetched = <<>>
    /\ static_orders = <<>>
    /\ login_env = Unobserved
    /\ row = Unobserved

\* static scrape_all_orders, lines 63-66: fetch the listing, find the links
StaticDiscover ==
    /\ pc = "static_main"
    /\ fetched' = Append(fetched, StaticStartUrl)
    /\ \E ok \in BOOLEAN :
         IF ok
         THEN /\ order_links' = find_order_links(listing)
              /\ idx' = 1
              /\ pc' = "static_loop"
         ELSE /\ pc' = "static_raised"
              /\ UNCHANGED <<order_links, idx>>
    /\ UNCHANGED <<unit, creds, listing, browser, hrefs, main_window, order_data, orders,
                   processed, opens, quits, static_orders>>

\* static scrape_all_orders, lines 67-74: one iteration of the loop
StaticScrapeOrderDetail ==
    /\ pc = "static_loop"
    /\ idx <= Len(order_links)
    /\ LET link == IF StartsWithSlash(order_links[idx])
                   THEN urljoin(StaticStartUrl, order_links[idx])
                   ELSE order_links[idx]
       IN  /\ fetched' = Append(fetched, link)
           /\ \E ok \in BOOLEAN :
                IF ok /\ HasScheme(link)
                THEN /\ static_orders' = Append(static_orders, [url |-> link])
                     /\ idx' = idx + 1
                     /\ pc' = "static_loop"
                ELSE /\ pc' = "static_raised"
                     /\ UNCHANGED <<static_orders, idx>>
    /\ UNCHANGED <<unit, creds, listing, browser, hrefs, main_window, order_data, orders,
                   processed, opens, quits, order_links>>

\* static scrape_all_orders, line 75: return orders
StaticReturn ==
    /\ pc = "static_loop"
    /\ idx > Len(order_links)
    /\ pc' = "static_done"
    /\ UNCHANGED <<unit, creds, listing, browser, harvest, quits, static>>

NextStatic ==
    \/ StaticDiscover
    \/ StaticScrapeOrderDetail
    \/ StaticReturn

SpecStatic == InitStatic /\ [][NextStatic]_vars

\* ================================================================ claims
OpenHandles == {windows[i].handle : i \in DOMAIN windows}

\* the harvest is between two references, or has returned
BetweenReferences == pc \in {"loop", "harvest_done"}

\* the harvest has read the listing and is running or has returned
Harvesting == pc \in {"loop", "opened", "in_tab", "handled", "harvest_done"}

RECURSIVE RecordsOf(_)
RecordsOf(calls) ==
    IF calls = <<>> THEN <<>>
    ELSE Head(calls).result \o RecordsOf(Tail(calls))

\* C1: between two references and when the harvest returns, the open tabs
\* are those that were open before the harvest (the listing tab alone):
\* every tab opened for a reference has been closed.
C1_TabsClosed == BetweenReferences => OpenHandles = {main_window}

\* C2: between two references and when the harvest returns, the active tab
\* is the listing tab the harvest started on, whatever the handlers returned.
C2_FocusOnListingTab ==
    BetweenReferences =>
        /\ active = main_window
        /\ \E i \in DOMAIN windows :
             /\ windows[i].handle = active
             /\ windows[i].ref = 0
             /\ windows[i].url = ListingUrl

C2_Witness ==
    /\ pc = "harvest_done"
    /\ Len(windows) > 2
    /\ \E i, j \in DOMAIN processed :
         processed[i].result = <<>> /\ processed[j].result # <<>>

\* C3: when the harvest returns, every reference has been handled, in
\* order, and the output holds exactly the records of the references whose
\* handler did not fail, so at most one per reference.
C3_FailureIsolated ==
    pc = "harvest_done" =>
        /\ Len(processed) = Len(hrefs)
        /\ \A i \in DOMAIN processed : processed[i].href = hrefs[i]
        /\ orders = RecordsOf(processed)
        /\ Len(orders) <= Len(hrefs)
        /\ Len(orders) =
             Cardinality({i \in DOMAIN processed : processed[i].result # <<>>})

C3_Witness ==
    /\ pc = "harvest_done"
    /\ Len(hrefs) = 3
    /\ processed[1].result # <<>>
    /\ processed[2].result = <<>>
    /\ processed[3].result # <<>>
    /\ Len(orders) = 2

\* C4: once login has succeeded the harvest never raises.
C4_HarvestNeverRaises == pc # "harvest_raised"

\* C5: references are handled one at a time in discovery order, and at
\* every point the output is the sequence of records of the references
\* handled so far, in that order (the one being handled possibly not yet
\* appended).
C5_DiscoveryOrder ==
    Harvesting \/ pc = "harvest_raised" =>
        /\ Len(processed) <= Len(hrefs)
        /\ \A i \in DOMAIN processed : processed[i].href = hrefs[i]
        /\ pc \in {"loop", "opened", "in_tab"} =>
             Len(processed) = idx - 1 /\ orders = RecordsOf(processed)
        /\ pc = "handled" =>
             /\ Len(processed) = idx
             /\ orders = RecordsOf(SubSeq(processed, 1, idx - 1))
        /\ pc = "harvest_done" => orders = RecordsOf(processed)
        /\ \/ orders = RecordsOf(processed)
           \/ orders = RecordsOf(SubSeq(processed, 1, Len(processed) - 1))

C5_Witness ==
    /\ pc = "handled"
    /\ idx = 3
    /\ Len(orders) = 2
    /\ orders[1].url # orders[2].url
    /\ order_data # <<>>

\* C6: a detail page without order-number element still gives a record,
\* with order_number absent and the date and total the page shows.
C6_RecordWithoutNumber ==
    pc = "handled" /\ page.number = NoText =>
        /\ order_data # <<>>
        /\ order_data[1].order_number = NoText
        /\ page.date # NoText => order_data[1].order_date # NoText
        /\ page.total # NoText => order_data[1].order_total # NoText

\* C7: on a page whose order-number element is present, a date or total
\* that cannot be read is absent in the record and the other fields are
\* populated; a harvest whose pages all show the order number returns one
\* record per reference.
FieldOf(text) == IF text = NoText THEN NoText ELSE Strip(text)

IsTrimOf(r, v) ==
    /\ r # <<>> => r[1] \notin Whitespace /\ r[Len(r)] \notin Whitespace
    /\ \E a \in 0..Len(v) :
         /\ a + Len(r) <= Len(v)
         /\ SubSeq(v, a + 1, a + Len(r)) = r
         /\ \A k \in 1..Len(v) :
              k <= a \/ k > a + Len(r) => v[k] \in Whitespace

\* C8: for every recognized colon-terminated prefix and every value, the
\* handler on a page whose order-number element reads <prefix><value>
\* returns a record whose order_number is the value without leading or
\* trailing whitespace; "Order No: 12345" gives "12345".
C8_PrefixStripped ==
    pc = "handled" =>
        /\ \A i \in DOMAIN Prefixes, v \in Values :
             page.number = Prefixes[i] \o v =>
               /\ order_data # <<>>
               /\ IsTrimOf(order_data[1].order_number, v)
        /\ page.number = OrderNo12345 =>
             /\ order_data # <<>>
             /\ order_data[1].order_number = <<"1", "2", "3", "4", "5">>

C8_Witness ==
    /\ pc = "handled"
    /\ page.number = Prefixes[2] \o <<" ", "7">>
    /\ order_data # <<>>
    /\ order_data[1].order_number = <<"7">>

\* positions of the listing's controls that satisfy P, in document order
RECURSIVE UrlsAt(_, _)
UrlsAt(P(_), i) ==
    IF i > Len(listing) THEN <<>>
    ELSE (IF P(listing[i])
          THEN <<ResolveHref(ListingUrl, listing[i].href)>>
          ELSE <<>>) \o UrlsAt(P, i + 1)

IsViewAnchorWithUrl(c) ==
    /\ c.tag = "a"
    /\ NormalizeSpace(c.text) = View
    /\ c.href # NoUrl

IsViewBtnAnchorWithUrl(c) == IsViewAnchorWithUrl(c) /\ c.btn

\* C9 as stated: the references are the URLs of all anchors whose label
\* normalizes to "View" and that expose a URL, in document order.
C9_EveryViewAnchor == Harvesting => hrefs = UrlsAt(IsViewAnchorWithUrl, 1)

\* C9 as amended: the references are the URLs of the anchors whose label
\* normalizes to "View", whose class contains "btn" and that expose a URL,
\* in document order; k such anchors give exactly k references.
C9_EveryViewBtnAnchor ==
    Harvesting =>
        /\ hrefs = UrlsAt(IsViewBtnAnchorWithUrl, 1)
        /\ Len(hrefs) =
             Cardinality({i \in DOMAIN listing : IsViewBtnAnchorWithUrl(listing[i])})

C9_Witness ==
    /\ pc = "loop"
    /\ Len(listing) = 3
    /\ \A i \in DOMAIN listing : IsViewBtnAnchorWithUrl(listing[i])
    /\ hrefs = <<Order1, Order2, Order1>>

\* the browser-driven half of C10: every reference is the URL of an anchor
\* that exposes one, and every tab was opened for a reference
BrowserFollowsAnchorsOnly ==
    Harvesting =>
        /\ \A k \in DOMAIN hrefs :
             \E i \in DOMAIN listing :
                /\ listing[i].tag = "a"
                /\ listing[i].href # NoUrl
                /\ hrefs[k] = ResolveHref(ListingUrl, listing[i].href)
        /\ Len(hrefs) <= Cardinality({i \in DOMAIN listing :
                                        listing[i].tag = "a" /\ listing[i].href # NoUrl})
        /\ \A i \in DOMAIN windows :
             windows[i].ref # 0 => windows[i].url = hrefs[windows[i].ref]

\* the static half of C10: no entry of order_links stands for a button and
\* nothing is requested for one
StaticFollowsAnchorsOnly ==
    /\ \A i \in DOMAIN order_links : order_links[i] # ButtonPlaceholder
    /\ \A i \in DOMAIN fetched : fetched[i] # ButtonPlaceholder
    /\ pc \in {"static_loop", "static_done"} =>
         Len(order_links) =
           Cardinality({i \in DOMAIN listing :
                          IsStaticView(listing[i], "a") /\ listing[i].href # NoUrl})

\* C10: a "View" button, or a control without URL, contributes no entry to
\* the reference list and nothing is opened or fetched for it, in the
\* browser-driven harvester and in the static variant.
C10_ButtonsNeverFollowed == BrowserFollowsAnchorsOnly /\ StaticFollowsAnchorsOnly

\* ------------------------------------------------------------ C11
\* the qualifying anchors of the listing, by position
Qualifying == {i \in DOMAIN listing : IsViewBtnAnchorWithUrl(listing[i])}

\* number of members of Q among 1..i
RankOf(Q, i) == Cardinality({j \in Q : j <= i})

Returned == {i \in DOMAIN processed : processed[i].result # <<>>}

RecordOf(i) == processed[i].result[1]

\* C12: every record has a url, and it is the URL of the detail page of the
\* reference the record was made for.
C12_UrlIsDetailPage ==
    \A i \in Returned :
        /\ RecordOf(i).url # NoUrl
        /\ RecordOf(i).url = processed[i].href

\* ------------------------------------------------------------ C13
\* C13: a failing snapshot export does not end the handler, and the record
\* carries a snapshot path exactly when the snapshot file was written.
C13_PathOnlyIfWritten ==
    \A i \in DOMAIN processed :
        /\ processed[i].page.number # NoText => i \in Returned
        /\ i \in Returned =>
             (RecordOf(i).pdf_path # NoText <=>
                 processed[i].written = <<RecordOf(i).pdf_path>>)

\* ------------------------------------------------------------ C14
\* C14: on a detail page without a "download receipt" button the handler
\* still returns the record, its receipts are the empty sequence, and no
\* receipt download navigation is made.
C14_NoReceiptControls ==
    \A i \in DOMAIN processed :
        processed[i].page.number # NoText /\ processed[i].page.receipts = <<>> =>
            /\ i \in Returned
            /\ RecordOf(i).receipts = <<>>
            /\ processed[i].receipt_gets = <<>>

\* no receipt button, a failing export and a tasting-notes download
C14_Witness ==
    /\ pc = "handled"
    /\ page.receipts = <<>>
    /\ page.export = "fails"
    /\ order_data # <<>>
    /\ order_data[1].receipts = <<>>
    /\ order_data[1].wine_notes # <<>>
    /\ processed[1].receipt_gets = <<>>
    /\ processed[1].notes_gets # <<>>

\* ------------------------------------------------------------ C15
\* C15: the receipts of a record are, in the order of the buttons, exactly
\* the URLs for which a receipt download navigation was started.
C15_RecordedIffTriggered ==
    \A i \in Returned : RecordOf(i).receipts = processed[i].receipt_gets

\* ------------------------------------------------------------ C16
\* the onclick texts that assign the browser location, and what they assign
Navigations ==
    {InvoiceOnclick, NotesOnclick, NotesOnclickReturn, NotesOnclickAbsolute}

TargetOf(onclick) ==
    CASE onclick = InvoiceOnclick -> InvoiceTarget
      [] onclick = NotesOnclick -> NotesTarget
      [] onclick = NotesOnclickReturn -> NotesTarget
      [] onclick = NotesOnclickAbsolute -> AbsoluteNotesTarget

\* the target of an instruction resolved against the page at u: a relative
\* target is put behind the origin of u
ResolvedTarget(onclick, u) ==
    IF StartsWith(TargetOf(onclick), <<"/">>)
    THEN u.origin \o TargetOf(onclick)
    ELSE TargetOf(onclick)

\* C16: a button that carries a location assignment resolves to the origin
\* of the detail page followed by the assigned target when the target is
\* relative, as a receipt button and as a tasting-notes button alike, so
\* that both extractors give the same URL for the same instruction text.
C16_ResolvedAgainstOrigin ==
    \A i \in Returned :
        LET pg == processed[i].page
        IN  /\ Len(pg.receipts) = 1 /\ pg.receipts[1] \in Navigations =>
                 RecordOf(i).receipts =
                     <<ResolvedTarget(pg.receipts[1], processed[i].href)>>
            /\ /\ pg.toolbar /\ pg.receipt_response # "page"
               /\ Len(pg.notes) = 1 /\ pg.notes[1] \in Navigations
               /\ Contains(pg.notes[1], NotesKeyword)
               /\ pg.notes_response # "raises"
               => RecordOf(i).wine_notes =
                     <<ResolvedTarget(pg.notes[1], processed[i].href)>>

\* ------------------------------------------------------------ C17
ProductMarker == <<"/", "p", "r", "o", "d", "u", "c", "t", "/">>

IsProductLink(h) == Contains(h, ProductMarker)

\* C17: the wine_links of a record are the hrefs of the hyperlinks of the
\* detail page that contain "/product/", in document order, duplicates kept.
C17_ProductLinks ==
    \A i \in Returned :
        RecordOf(i).wine_links = SelectSeq(processed[i].page.links, IsProductLink)

\* ------------------------------------------------------------ C18
\* the record the same call gives on the page pg
TwinOf(i, pg) == RunHandler(pg, processed[i].href).result[1]

\* C18: a category that fails is empty or absent in the record, and every
\* other category is what it is on the same page without the failure; the
\* failures are a failing snapshot export, a receipt download that does not
\* deliver a file, and a raising tasting-notes download.
C18_CategoriesIsolated ==
    \A i \in Returned :
        LET pg == processed[i].page
            rec == RecordOf(i)
            exported == TwinOf(i, [pg EXCEPT !.export = "ok"])
            received == TwinOf(i, [pg EXCEPT !.receipt_response = "download"])
            noted == TwinOf(i, [pg EXCEPT !.notes_response = "download"])
        IN  /\ pg.export = "fails" =>
                 /\ rec.pdf_path = NoText
                 /\ rec.receipts = exported.receipts
                 /\ rec.wine_notes = exported.wine_notes
                 /\ rec.wine_links = exported.wine_links
            /\ pg.receipt_response # "download" /\ processed[i].receipt_gets # <<>> =>
                 /\ rec.receipts = <<>>
                 /\ rec.pdf_path = received.pdf_path
                 /\ rec.wine_notes = received.wine_notes
                 /\ rec.wine_links = received.wine_links
            /\ pg.notes_response = "raises" /\ processed[i].notes_gets # <<>> =>
                 /\ rec.wine_notes = <<>>
                 /\ rec.pdf_path = noted.pdf_path
                 /\ rec.receipts = noted.receipts
                 /\ rec.wine_links = noted.wine_links

\* ------------------------------------------------------------ C19
\* toolbar buttons that assign the location and carry the notes keyword
NotesNavigations == {NotesOnclick, NotesOnclickReturn, NotesOnclickAbsolute}

\* C19: wine_notes holds at most one URL and at most one tasting-notes
\* navigation is made per order; a URL in wine_notes is the navigated one,
\* resolved from the first toolbar button whose location assignment carries
\* the notes keyword; without such a button wine_notes is empty and no
\* tasting-notes navigation is made.
C19_AtMostOneNote ==
    \A i \in Returned :
        LET pg == processed[i].page
            rec == RecordOf(i)
            firsts == {k \in DOMAIN pg.notes :
                          /\ pg.notes[k] \in NotesNavigations
                          /\ \A j \in 1..(k - 1) : pg.notes[j] \notin NotesNavigations}
        IN  /\ Len(rec.wine_notes) <= 1
            /\ Len(processed[i].notes_gets) <= 1
            /\ rec.wine_notes # <<>> =>
                 /\ rec.wine_notes = processed[i].notes_gets
                 /\ pg.toolbar
                 /\ \E k \in firsts :
                       rec.wine_notes[1] = ResolvedTarget(pg.notes[k], processed[i].href)
            /\ ~pg.toolbar \/ firsts = {} =>
                 rec.wine_notes = <<>> /\ processed[i].notes_gets = <<>>

\* two qualifying buttons with different targets: the URL of the first is
\* navigated to and recorded, alone
C19_Witness ==
    /\ pc = "handled"
    /\ page.notes = <<NotesOnclickAbsolute, NotesOnclick>>
    /\ order_data # <<>>
    /\ order_data[1].wine_notes = <<AbsoluteNotesTarget>>
    /\ processed[1].notes_gets = <<AbsoluteNotesTarget>>

\* ------------------------------------------------------------ C20
\* C20: without the listing marker login raises and nothing catches it: the
\* harvest never starts (no reference read, no tab opened, no handler run,
\* no record) and the program ends in the error after closing the session;
\* when login has returned, the tab shows the listing page and the marker
\* is there.
C20_LoginGuardsHarvest ==
    /\ ~MarkerPresent \/ pc = "login_failed" =>
         /\ pc \in {"main", "config_error", "construct", "login", "login_failed",
                    "crashed"}
         /\ hrefs = <<>>
         /\ opens = <<>>
         /\ processed = <<>>
         /\ orders = <<>>
         /\ Len(windows) <= 1
    /\ pc = "logged_in" =>
         /\ MarkerPresent
         /\ current_url = ListingUrl

\* a listing of three controls none of which is labelled "View": the
\* program has closed the session once and ended in login's error
C20_Witness ==
    /\ pc = "crashed"
    /\ Len(listing) = 3
    /\ ~MarkerPresent
    /\ quits = 1
    /\ hrefs = <<>>
    /\ processed = <<>>

\* ------------------------------------------------------------ C21
\* C21: once the login form has appeared, login returns exactly when the
\* listing marker is rendered, whatever happens with the cookie overlay
\* (absent, clicked away, or present and not clickable).
C21_CookieIrrelevant ==
    pc \in {"logged_in", "login_failed"} /\ login_env.form =>
        (pc = "logged_in" <=> login_env.loaded /\ MarkerPresent)

\* login has returned although the overlay could not be clicked
C21_Witness ==
    /\ pc = "logged_in"
    /\ login_env.cookie = "unclickable"
    /\ MarkerPresent
    /\ current_url = ListingUrl

\* ------------------------------------------------------------ C22
Missing(v) == v \in {Unset, ""}

\* C22: once main has read the credentials, a missing or empty account
\* identifier or secret means main has stopped with the configuration error,
\* and no browser session exists, none was ever shut down, and no page was
\* navigated to or opened.
C22_ConfigErrorBeforeBrowser ==
    pc # "main" /\ (Missing(username) \/ Missing(password)) =>
        /\ pc = "config_error"
        /\ windows = <<>>
        /\ active = 0
        /\ quits = 0
        /\ opens = <<>>
        /\ hrefs = <<>>

\* main stopped on an empty secret although the identifier was given
C22_Witness ==
    /\ pc = "config_error"
    /\ ~Missing(username)
    /\ password = ""
    /\ windows = <<>>

\* ------------------------------------------------------------ C23
PlaceholderPath ==
    <<"o", "r", "d", "e", "r", "_", "d", "e", "t", "a", "i", "l", "s", "/",
      "u", "n", "k", "n", "o", "w", "n", "_", "o", "r", "d", "e", "r",
      ".", "p", "d", "f">>

ReadBack ==
    {"order_number", "order_date", "order_total", "pdf_path", "receipts",
     "wine_notes", "wine_links"}

\* C24: the mapping to_dict returns has every field of the record as a key
\* exactly once, each of order_number, order_date, order_total, pdf_path,
\* receipts, wine_notes and wine_links maps to the record's value with the
\* sequences in the same order, and a record built from the mapping equals
\* the record.
C24_ToDictFaithful ==
    pc = "dict" =>
        /\ \A f \in ReadBack : Get(row, f) = order_data[1][f]
        /\ \A k \in DOMAIN Fields :
             Cardinality({j \in DOMAIN row : row[j][1] = Fields[k]}) = 1
        /\ Len(row) = Len(Fields)
        /\ OrderDetail(row) = order_data[1]

\* a record with two different receipts and an absent snapshot path has
\* been converted
C24_Witness ==
    /\ pc = "dict"
    /\ Len(order_data[1].receipts) = 2
    /\ order_data[1].receipts[1] # order_data[1].receipts[2]
    /\ order_data[1].pdf_path = NoText
    /\ Get(row, "receipts") = order_data[1].receipts

\* ------------------------------------------------------------ C25
\* the prefixes the text starts with
Matching(t) == {i \in DOMAIN Prefixes : StartsWith(t, Prefixes[i])}

\* C25: when the element's text starts with a colon-terminated prefix, the
\* order number is what follows the first such prefix in the list, trimmed,
\* with nothing else removed (a second prefix or label stays); when it
\* starts with none, the order number is the text exactly as it was read.
C25_AtMostOnePrefix ==
    pc = "handled" /\ page.number # NoText =>
        /\ order_data # <<>>
        /\ LET t == page.number
               n == order_data[1].order_number
           IN  IF Matching(t) = {}
               THEN n = t
               ELSE LET i == CHOOSE m \in Matching(t) :
                                 \A k \in Matching(t) : m <= k
                    IN  IsTrimOf(n, SubSeq(t, Len(Prefixes[i]) + 1, Len(t)))

\* "Order No:Order No:7" kept its second prefix
C25_Witness ==
    /\ pc = "handled"
    /\ page.number = Prefixes[1] \o Prefixes[1] \o <<"7">>
    /\ order_data # <<>>
    /\ order_data[1].order_number = Prefixes[1] \o <<"7">>

\* ------------------------------------------------------------ C26
\* C26: whenever the handler is about to run for the idx-th reference, the
\* active tab is not the listing tab and is the tab that was opened for that
\* reference.
C26_HandlerOnOwnTab ==
    pc = "in_tab" =>
        /\ active # main_window
        /\ \E w \in DOMAIN windows :
             /\ windows[w].handle = active
             /\ windows[w].ref = idx

\* ------------------------------------------------------------ C27
\* where main's try block is left: login raised, the harvest raised, the
\* harvest returned
ExitPoints == {"login_failed", "harvest_raised", "harvest_done"}

\* C27: the session is never shut down twice; at each of the three ways out
\* of main's try block the session is still up and its shutdown is the step
\* that follows; a finished run has shut the session down exactly once and
\* takes no further step.
C27_ClosedExactlyOnce ==
    /\ quits <= 1
    /\ pc \in ExitPoints => quits = 0 /\ windows # <<>> /\ ENABLED Close
    /\ pc \in {"exited", "crashed"} =>
         quits = 1 /\ windows = <<>> /\ ~ENABLED Next
    /\ quits = 1 => pc \in {"exited", "crashed"}

\* the harvest raised after one order had been handled, and the session was
\* shut down once
C27_Witness ==
    /\ pc = "crashed"
    /\ processed # <<>>
    /\ Len(processed) < Len(hrefs)
    /\ quits = 1
    /\ windows = <<>>

\* ------------------------------------------------------------ C28
\* the same call on the same page when every download delivers a file, so
\* that no navigation moves the tab
Undisturbed(i) ==
    RunHandler([processed[i].page EXCEPT !.receipt_response = "download",
                                         !.notes_response = "download"],
               processed[i].href)

====
